---- MODULE Spec2Model ----
(***************************************************************************)
(* Real-Time News Sentiment dashboard (src/app.py): one Streamlit script   *)
(* that, on every rerun, optionally fetches headlines, scores and persists *)
(* them as one parquet file per batch, then loads the recent files and     *)
(* renders them.  The model keeps the script's locals per session, the     *)
(* prediction directory, the uuid generator and the clock.                 *)
(***************************************************************************)
EXTENDS Integers, Sequences, FiniteSets, TLC

\* ---------------------------------------------------------------- bounds
NumRuns     == 2   \* browser sessions that may run the script
MaxFetches  == 3   \* button presses in a behaviour of Spec
ConcFetches == 2   \* button presses in a behaviour of SpecConc
MaxArticles == 2   \* articles in one API response
RecentFiles == 2   \* stands for the 50 of load_recent's [:50]
DefaultN    == 2   \* stands for the 200 of load_recent(n=200)
Res         == 1   \* polarity is counted in steps of 0.1 / Res

Runs      == 1..NumRuns
Scale     == 10 * Res          \* polarity 1.0
Threshold == Res               \* polarity 0.1
MaxTime   == MaxFetches + 2    \* latest instant the clock reaches
MaxN      == RecentFiles * MaxArticles + 1

VARIABLES
    pc,        \* per session: where the script is
    articles,  \* per session: the API response of fetch_news_newsapi
    df_new,    \* per session: the fetched (then classified) batch
    fname,     \* per session: the file name classify_sentiment generated
    df,        \* per session: the result of load_recent()
    store,     \* PRED_DIR: file name -> [mtime, parseable, data]
    uuids,     \* number of uuid.uuid4() calls made so far
    now,       \* the clock (datetime.now(), file modification times)
    budget,    \* button presses left
    textblob   \* the scoring library: title -> outcome

vars == <<pc, articles, df_new, fname, df, store, uuids, now, budget, textblob>>

\* ---------------------------------------------------------------- values
None    == "None"        \* Python None / JSON null
Removed == "[Removed]"
NoFile  == "<no file>"
NaT     == 0             \* pandas NaT; real instants are 1..MaxTime
Titles  == {"t1", "t2"}

Min(a, b) == IF a < b THEN a ELSE b

\* dict.get(k, dflt)
Get(d, k, dflt) == IF k \in DOMAIN d THEN d[k] ELSE dflt

\* truth value of a str-or-None
Truthy(s) == s # None /\ s # ""

\* str(uuid.uuid4()) and uuid.uuid4().hex of the k-th generated uuid
UuidStr(k) == "uuid-" \o ToString(k)
UuidHex(k) == "hex" \o ToString(k)

\* datetime.isoformat() of instant t
IsoFormat(t) == "T" \o ToString(t)

\* ---------------------------------------------------------------- data frames
EmptyFrame == [columns |-> <<>>, rows |-> <<>>]
FetchColumns == <<"id", "source", "title", "publishedAt">>
AllColumns == <<"id", "source", "title", "publishedAt", "sentiment", "prob_pos">>
EmptyRecent == [columns |-> AllColumns, rows |-> <<>>]

\* pd.DataFrame(rows) for a list of dicts
DataFrame(rows) ==
    IF rows = <<>> THEN EmptyFrame ELSE [columns |-> FetchColumns, rows |-> rows]

\* DataFrame.empty
IsEmpty(d) == d.rows = <<>> \/ d.columns = <<>>

\* ---------------------------------------------------------------- fetch
A_full == [title |-> "t1", url |-> "u1", publishedAt |-> IsoFormat(1),
           source |-> [name |-> "BBC"]]
A_bare == [title |-> "t2", source |-> <<>>]
A_null == [title |-> "t1", url |-> None, publishedAt |-> None,
           source |-> [id |-> "cnn"]]
A_removed == [title |-> Removed, url |-> "u1", publishedAt |-> IsoFormat(2)]
A_untitled == [url |-> "u2", publishedAt |-> IsoFormat(2)]
A_blank == [title |-> "", url |-> "u2"]

ArticleSet == {A_full, A_bare, A_null, A_removed, A_untitled, A_blank}

ArticleLists == UNION {[1..k -> ArticleSet] : k \in 0..MaxArticles}

\* what requests.get(...).json() can be: an exception, or a JSON object
Responses ==
    {[ok |-> FALSE, json |-> <<>>], [ok |-> TRUE, json |-> <<>>]}
        \cup {[ok |-> TRUE, json |-> [articles |-> s]] : s \in ArticleLists}

\* line 42 without the "[Removed]" test
ValidTitleAnyText(a) == Truthy(Get(a, "title", None))

\* line 42
ValidTitle(a) == Truthy(Get(a, "title", None)) /\ Get(a, "title", None) # Removed

\* lines 43-48: the row of article a, k being the uuid drawn for it
Row(a, k, t) ==
    [id          |-> Get(a, "url", UuidStr(k)),
     source      |-> Get(Get(a, "source", <<>>), "name", "Unknown"),
     title       |-> Get(a, "title", None),
     publishedAt |-> Get(a, "publishedAt", IsoFormat(t))]

\* lines 40-48: k uuids were drawn before this list
RECURSIVE Rows(_, _, _)
Rows(as, k, t) ==
    IF as = <<>> THEN <<>>
    ELSE IF ValidTitle(Head(as))
         THEN <<Row(Head(as), k + 1, t)>> \o Rows(Tail(as), k + 1, t)
         ELSE Rows(Tail(as), k, t)

\* lines 31-52
fetch_news_newsapi(resp, k, t) ==
    IF ~resp.ok THEN EmptyFrame
    ELSE LET as == Get(resp.json, "articles", <<>>)
         IN IF as = <<>> THEN EmptyFrame ELSE DataFrame(Rows(as, k, t))

\* uuid.uuid4() calls made by fetch_news_newsapi
UuidsDrawn(resp) ==
    IF ~resp.ok THEN 0
    ELSE Len(Rows(Get(resp.json, "articles", <<>>), 0, 0))

\* ---------------------------------------------------------------- classify
Polarities == (0 - Scale)..Scale
Outcomes == {[raises |-> TRUE, polarity |-> 0]}
                \cup {[raises |-> FALSE, polarity |-> p] : p \in Polarities}

\* lines 69-74 with the thresholds included (>=, <=)
LabelInclusive(p) ==
    IF p >= Threshold THEN "Positive"
    ELSE IF p <= 0 - Threshold THEN "Negative"
    ELSE "Neutral"

\* lines 69-74
Label(p) ==
    IF p > Threshold THEN "Positive"
    ELSE IF p < 0 - Threshold THEN "Negative"
    ELSE "Neutral"

\* line 78, (polarity + 1) / 2 as a count of 1/(2*Scale)
ProbPos(p) == p + Scale
Half == Scale

\* lines 64-81 with 0.0 in place of 0.5 in the except branch
ScoredZeroOnFailure(row, tb) ==
    LET o == tb[row.title]
    IN IF o.raises
       THEN row @@ [sentiment |-> "Neutral", prob_pos |-> 0]
       ELSE row @@ [sentiment |-> Label(o.polarity), prob_pos |-> ProbPos(o.polarity)]

\* lines 64-81 for one title
Scored(row, tb) ==
    LET o == tb[row.title]
    IN IF o.raises
       THEN row @@ [sentiment |-> "Neutral", prob_pos |-> Half]
       ELSE row @@ [sentiment |-> Label(o.polarity), prob_pos |-> ProbPos(o.polarity)]

\* lines 60-84
Classified(d, tb) ==
    [columns |-> d.columns \o <<"sentiment", "prob_pos">>,
     rows    |-> [i \in 1..Len(d.rows) |-> Scored(d.rows[i], tb)]]

\* line 87 with one fixed name in place of the uuid
FileNameFixed(k) == "pred_latest.parquet"

\* line 87
FileName(k) == "pred_" \o UuidHex(k) \o ".parquet"

\* line 88 writing the directory anew, the batch its only file
to_parquet_replacing(st, name, file) == [f \in {name} |-> file]

\* line 88: writing creates the file or replaces the one of that name
to_parquet(st, name, file) ==
    [f \in DOMAIN st \cup {name} |-> IF f = name THEN file ELSE st[f]]

Partial == [mtime |-> 0, parseable |-> FALSE, data |-> EmptyFrame]

\* ---------------------------------------------------------------- load
\* lines 97-100: the names ordered by modification time, newest first
RECURSIVE ByMtimeDesc(_, _)
ByMtimeDesc(st, S) ==
    IF S = {} THEN {<<>>}
    ELSE UNION {{<<f>> \o rest : rest \in ByMtimeDesc(st, S \ {f})} :
                f \in {g \in S : \A h \in S : st[g].mtime >= st[h].mtime}}

\* line 101 without the [:50]
NewestUncut(files) == files

\* line 101
Newest(files) == SubSeq(files, 1, Min(RecentFiles, Len(files)))

\* lines 106-111 with break in place of continue
RECURSIVE ReadAllUntilBad(_, _)
ReadAllUntilBad(st, files) ==
    IF files = <<>> THEN <<>>
    ELSE IF st[Head(files)].parseable
         THEN <<st[Head(files)].data>> \o ReadAllUntilBad(st, Tail(files))
         ELSE <<>>

\* lines 106-111
RECURSIVE ReadAll(_, _)
ReadAll(st, files) ==
    IF files = <<>> THEN <<>>
    ELSE IF st[Head(files)].parseable
         THEN <<st[Head(files)].data>> \o ReadAll(st, Tail(files))
         ELSE ReadAll(st, Tail(files))

\* line 116
RECURSIVE Concat(_)
Concat(dfs) == IF dfs = <<>> THEN <<>> ELSE Head(dfs).rows \o Concat(Tail(dfs))

\* line 117 left out
KeepDuplicates(rows, seen) == rows

\* line 117
RECURSIVE DropDuplicates(_, _)
DropDuplicates(rows, seen) ==
    IF rows = <<>> THEN <<>>
    ELSE IF Head(rows).id \in seen
         THEN DropDuplicates(Tail(rows), seen)
         ELSE <<Head(rows)>> \o DropDuplicates(Tail(rows), seen \cup {Head(rows).id})

\* line 118: pd.to_datetime(errors='coerce') of one value
to_datetime(s) ==
    IF \E t \in 1..MaxTime : IsoFormat(t) = s
    THEN CHOOSE t \in 1..MaxTime : IsoFormat(t) = s
    ELSE NaT

Converted(rows) ==
    [i \in 1..Len(rows) |-> [rows[i] EXCEPT !.publishedAt = to_datetime(@)]]

\* sort_values(ascending=False): NaT last
NotBefore(a, b) == b = NaT \/ (a # NaT /\ a >= b)

\* line 120: the sort is not stable, so equal keys come in any order
RECURSIVE SortValues(_, _)
SortValues(rows, I) ==
    IF I = {} THEN {<<>>}
    ELSE UNION {{<<rows[i]>> \o rest : rest \in SortValues(rows, I \ {i})} :
                i \in {j \in I : \A k \in I :
                          NotBefore(rows[j].publishedAt, rows[k].publishedAt)}}

\* head(n)
HeadN(rows, n) == SubSeq(rows, 1, Min(n, Len(rows)))

\* lines 93-120: every frame load_recent(n) can return
load_recent(st, n) ==
    UNION {LET files == Newest(all)
               dfs == ReadAll(st, files)
           IN IF files = <<>> \/ dfs = <<>> THEN {EmptyRecent}
              ELSE LET rows == Converted(DropDuplicates(Concat(dfs), {}))
                   IN {[columns |-> Head(dfs).columns, rows |-> HeadN(s, n)] :
                          s \in SortValues(rows, 1..Len(rows))}
           : all \in ByMtimeDesc(st, DOMAIN st)}

\* ---------------------------------------------------------------- the script
\* the spec's examples: polarity 0.5 and -0.3
ExampleScorer ==
    [t \in Titles |-> IF t = "t1" THEN [raises |-> FALSE, polarity |-> 5 * Res]
                      ELSE [raises |-> FALSE, polarity |-> 0 - 3 * Res]]

InitWith(b, scorers) ==
    /\ pc = [r \in Runs |-> "idle"]
    /\ articles = [r \in Runs |-> [ok |-> FALSE, json |-> <<>>]]
    /\ df_new = [r \in Runs |-> EmptyFrame]
    /\ fname = [r \in Runs |-> NoFile]
    /\ df = [r \in Runs |-> EmptyFrame]
    /\ store = <<>>
    /\ uuids = 0
    /\ now = 1
    /\ budget = b
    /\ textblob \in scorers

Init == InitWith(MaxFetches, {ExampleScorer})

\* a rerun of the script, lines 123-141, with the button pressed or not
Locals(r) ==
    /\ articles' = [articles EXCEPT ![r] = [ok |-> FALSE, json |-> <<>>]]
    /\ df_new' = [df_new EXCEPT ![r] = EmptyFrame]
    /\ fname' = [fname EXCEPT ![r] = NoFile]
    /\ df' = [df EXCEPT ![r] = EmptyFrame]

RerunPressed(r) ==
    /\ pc[r] \in {"idle", "aborted"}
    /\ budget > 0
    /\ budget' = budget - 1
    /\ pc' = [pc EXCEPT ![r] = "fetch"]
    /\ Locals(r)
    /\ UNCHANGED <<store, uuids, now, textblob>>

Rerun(r) ==
    /\ pc[r] \in {"idle", "aborted"}
    /\ pc' = [pc EXCEPT ![r] = "load"]
    /\ Locals(r)
    /\ UNCHANGED <<store, uuids, now, budget, textblob>>

\* lines 144-148, 154-155
FetchNews(r) ==
    /\ pc[r] = "fetch"
    /\ \E resp \in Responses :
        /\ articles' = [articles EXCEPT ![r] = resp]
        /\ df_new' = [df_new EXCEPT ![r] = fetch_news_newsapi(resp, uuids, now)]
        /\ uuids' = uuids + UuidsDrawn(resp)
    /\ pc' = [pc EXCEPT ![r] = IF IsEmpty(df_new'[r]) THEN "load" ELSE "classify"]
    /\ UNCHANGED <<fname, df, store, now, budget, textblob>>

\* lines 149-151 with classify_sentiment, lines 55-90.  uuid4 never repeats
\* a value, and the clock moves on with every write, so that no two files
\* have the same modification time.
ClassifySentiment(r) ==
    /\ pc[r] = "classify"
    /\ ~IsEmpty(df_new[r])
    /\ LET out == Classified(df_new[r], textblob)
           name == FileName(uuids + 1)
       IN /\ df_new' = [df_new EXCEPT ![r] = out]
          /\ fname' = [fname EXCEPT ![r] = name]
          /\ store' = to_parquet(store, name,
                                 [mtime |-> now, parseable |-> TRUE, data |-> out])
    /\ uuids' = uuids + 1
    /\ now' = now + 1
    /\ pc' = [pc EXCEPT ![r] = "load"]
    /\ UNCHANGED <<articles, df, budget, textblob>>

\* line 88 raising: nothing catches it, the script run ends there; the
\* file is absent or left incomplete
ClassifySentimentWriteError(r) ==
    /\ pc[r] = "classify"
    /\ ~IsEmpty(df_new[r])
    /\ LET out == Classified(df_new[r], textblob)
           name == FileName(uuids + 1)
       IN /\ df_new' = [df_new EXCEPT ![r] = out]
          /\ fname' = [fname EXCEPT ![r] = name]
          /\ \/ store' = store
             \/ store' = to_parquet(store, name, [Partial EXCEPT !.mtime = now])
    /\ uuids' = uuids + 1
    /\ now' = now + 1
    /\ pc' = [pc EXCEPT ![r] = "aborted"]
    /\ UNCHANGED <<articles, df, budget, textblob>>

\* line 158
LoadRecent(r) ==
    /\ pc[r] = "load"
    /\ \E res \in load_recent(store, DefaultN) : df' = [df EXCEPT ![r] = res]
    /\ pc' = [pc EXCEPT ![r] = "render"]
    /\ UNCHANGED <<articles, df_new, fname, store, uuids, now, budget, textblob>>

\* lines 160-243
Render(r) ==
    /\ pc[r] = "render"
    /\ pc' = [pc EXCEPT ![r] = "idle"]
    /\ UNCHANGED <<articles, df_new, fname, df, store, uuids, now, budget, textblob>>

Step(r) ==
    \/ RerunPressed(r)
    \/ Rerun(r)
    \/ FetchNews(r)
    \/ ClassifySentiment(r)
    \/ ClassifySentimentWriteError(r)
    \/ LoadRecent(r)
    \/ Render(r)

\* one session
Next == Step(1)

Spec == Init /\ [][Next]_vars

\* several sessions at once
InitConc == InitWith(ConcFetches, {ExampleScorer})
NextConc == \E r \in Runs : Step(r)
SpecConc == InitConc /\ [][NextConc]_vars

\* one fetch, any behaviour of the scoring library
InitScore == InitWith(1, [Titles -> Outcomes])
NextScore == Step(1)
SpecScore == InitScore /\ [][NextScore]_vars

\* ---------------------------------------------------------------- properties
RowsOf(d) == {d.rows[i] : i \in 1..Len(d.rows)}
IdsIn(d) == {d.rows[i].id : i \in 1..Len(d.rows)}
Count(d, id) == Cardinality({i \in 1..Len(d.rows) : d.rows[i].id = id})

\* the RecentFiles most recently modified files, and those of them that parse
Window(st) ==
    {f \in DOMAIN st :
        Cardinality({g \in DOMAIN st : st[g].mtime > st[f].mtime}) < RecentFiles}
Loaded(st) == {f \in Window(st) : st[f].parseable}
LoadedIds(st) == UNION {IdsIn(st[f].data) : f \in Loaded(st)}
Restrict(st, S) == [f \in S |-> st[f]]

\* a session whose classify_sentiment call has returned
Persisted(r) == fname[r] # NoFile /\ pc[r] \in {"load", "render", "idle"}

\* C1: every row scored with polarity p is Positive iff p > 0.1, Negative iff
\* p < -0.1 and Neutral otherwise (p = 0.1 and p = -0.1 included), and its
\* prob_pos is (p + 1) / 2, which lies in [0, 1].
C1_SentimentMapping ==
    \A r \in Runs : Persisted(r) =>
        \A i \in 1..Len(df_new[r].rows) :
            LET row == df_new[r].rows[i]
                o == textblob[row.title]
                p == o.polarity
            IN ~o.raises =>
                /\ (row.sentiment = "Positive") <=> (p > Threshold)
                /\ (row.sentiment = "Negative") <=> (p < 0 - Threshold)
                /\ (row.sentiment = "Neutral") <=> (p >= 0 - Threshold /\ p <= Threshold)
                /\ row.sentiment \in {"Positive", "Negative", "Neutral"}
                /\ row.prob_pos = p + Scale    \* (p/Scale + 1) / 2, in 1/(2*Scale)
                /\ row.prob_pos >= 0 /\ row.prob_pos <= 2 * Scale

\* a batch with one title scored exactly 0.1 (Neutral) and one just above it
C1_Witness ==
    \E r \in Runs : Persisted(r) /\ Len(df_new[r].rows) = 2 /\
        LET a == df_new[r].rows[1]
            b == df_new[r].rows[2]
        IN /\ ~textblob[a.title].raises /\ textblob[a.title].polarity = Threshold
           /\ a.sentiment = "Neutral"
           /\ ~textblob[b.title].raises /\ textblob[b.title].polarity = Threshold + 1
           /\ b.sentiment = "Positive"

\* C2 as stated: load_recent's result holds every id at most once, and an id
\* that is in two or more of the loaded files exactly once (read here for the
\* ids that are a URL or a token, so that a null id plays no part).
C2_Original ==
    \A r \in Runs : pc[r] = "render" =>
        /\ \A id \in IdsIn(df[r]) : Count(df[r], id) = 1
        /\ \A id \in LoadedIds(store) \ {None} :
              Cardinality({f \in Loaded(store) : id \in IdsIn(store[f].data)}) >= 2
                  => Count(df[r], id) = 1

\* C2 amended: every id at most once; an id that is in two or more of the
\* loaded files exactly once whenever the loaded files hold at most n
\* distinct ids (otherwise the top-n cut may drop it).
C2_DedupById ==
    \A r \in Runs : pc[r] = "render" =>
        /\ \A id \in IdsIn(df[r]) : Count(df[r], id) = 1
        /\ Cardinality(LoadedIds(store)) <= DefaultN =>
              \A id \in LoadedIds(store) :
                  Cardinality({f \in Loaded(store) : id \in IdsIn(store[f].data)}) >= 2
                      => Count(df[r], id) = 1

\* two loaded files share an id and the result shows it once
C2_Witness ==
    \E r \in Runs : pc[r] = "render" /\
        \E f, g \in Loaded(store) : f # g /\
            \E id \in IdsIn(store[f].data) \cap IdsIn(store[g].data) :
                /\ id # None
                /\ Cardinality(LoadedIds(store)) <= DefaultN
                /\ Count(df[r], id) = 1

\* the first occurrences of the distinct ids held in the loaded files, files
\* taken from most to least recently modified, rows in file order
FirstOccurrences(st) ==
    {x \in [file : Loaded(st), at : 1..MaxArticles] :
        /\ x.at <= Len(st[x.file].data.rows)
        /\ LET id == st[x.file].data.rows[x.at].id
           IN /\ \A j \in 1..(x.at - 1) : st[x.file].data.rows[j].id # id
              /\ \A g \in Loaded(st) :
                    st[g].mtime > st[x.file].mtime => id \notin IdsIn(st[g].data)}

\* the stored row as load_recent shows it: publishedAt parsed, the rest as is
Shown(row) ==
    [row EXCEPT !.publishedAt =
        IF \E t \in 1..MaxTime : IsoFormat(t) = row.publishedAt
        THEN CHOOSE t \in 1..MaxTime : IsoFormat(t) = row.publishedAt
        ELSE 0]

Candidates(st) == {Shown(st[x.file].data.rows[x.at]) : x \in FirstOccurrences(st)}

\* a precedes-or-ties b in descending publishedAt order, unparsed dates last
Descending(a, b) ==
    /\ (a.publishedAt # 0 /\ b.publishedAt # 0) => a.publishedAt >= b.publishedAt
    /\ a.publishedAt = 0 => b.publishedAt = 0

\* C3: for every n, load_recent(n) returns exactly the first min(n, D)
\* records, by publishedAt descending, of the D distinct-id records (first
\* occurrence kept, newest file first) held in the RecentFiles most recently
\* modified files; nothing from an older file is returned.
C3_TopNOfRecent ==
    \A n \in 0..MaxN : \A res \in load_recent(store, n) :
        LET cand == Candidates(store)
            got == RowsOf(res)
        IN /\ Len(res.rows) = Min(n, Cardinality(LoadedIds(store)))
           /\ Cardinality(got) = Len(res.rows)
           /\ got \subseteq cand
           /\ \A i, j \in 1..Len(res.rows) : i < j => Descending(res.rows[i], res.rows[j])
           /\ \A x \in got : \A y \in cand \ got : Descending(x, y)

\* more distinct ids than n in the newest files, an id that only an older
\* file holds, and the result of load_recent() cut to n rows
C3_Witness ==
    \E r \in Runs :
        /\ pc[r] = "render"
        /\ Cardinality(LoadedIds(store)) > DefaultN
        /\ Len(df[r].rows) = DefaultN
        /\ df[r] \in load_recent(store, DefaultN)
        /\ \E f \in DOMAIN store \ Window(store) :
              store[f].parseable /\ IdsIn(store[f].data) \ LoadedIds(store) # {}

\* the response holds no valid article: no list, an empty list, or only
\* articles whose title is missing, null, empty or "[Removed]"
ZeroValid(resp) ==
    /\ resp.ok
    /\ "articles" \in DOMAIN resp.json =>
          \A i \in 1..Len(resp.json.articles) :
              LET a == resp.json.articles[i]
              IN "title" \notin DOMAIN a \/ a.title \in {None, "", Removed}

\* C4: a fetch whose response holds zero valid articles yields an empty
\* batch, skips classify_sentiment, and the rest of that run writes no file.
C4_NoFileForEmptyBatch ==
    [][\A r \in Runs :
          /\ (pc[r] = "fetch" /\ pc'[r] # "fetch" /\ ZeroValid(articles'[r])) =>
                /\ IsEmpty(df_new'[r])
                /\ pc'[r] = "load"
                /\ store' = store
          /\ (pc[r] \in {"load", "render"} /\ pc'[r] # pc[r] /\ ZeroValid(articles[r])) =>
                /\ store' = store
                /\ fname'[r] = NoFile]_vars

\* a run arrived at load_recent after a response made only of invalid
\* articles, with files already in the store
C4_Witness ==
    \E r \in Runs :
        /\ pc[r] = "render"
        /\ ZeroValid(articles[r])
        /\ "articles" \in DOMAIN articles[r].json
        /\ Len(articles[r].json.articles) = MaxArticles
        /\ \E i \in 1..MaxArticles : articles[r].json.articles[i] = A_removed
        /\ fname[r] = NoFile
        /\ store # <<>>

\* C5: nothing is fatal, no run of the script ends before the dashboard is
\* rendered, whichever step fails.
C5_NothingIsFatal == \A r \in Runs : pc[r] # "aborted"

\* the valid articles of a response, in order: the articles of the rows
HasTitle(a) == "title" \in DOMAIN a /\ a.title \notin {None, "", Removed}
HasUrl(a) == "url" \in DOMAIN a /\ a.url # None
ValidArticles(resp) ==
    IF resp.ok /\ "articles" \in DOMAIN resp.json
    THEN SelectSeq(resp.json.articles, HasTitle)
    ELSE <<>>

\* C6: every fetched record's id is the article's URL or a fresh token: no
\* id is null, and two articles without a URL never share an id.
C6_IdIsUrlOrToken ==
    \A r \in Runs : pc[r] = "classify" =>
        LET as == ValidArticles(articles[r])
            rows == df_new[r].rows
        IN /\ Len(rows) = Len(as)
           /\ \A i \in 1..Len(rows) :
                /\ rows[i].id # None
                /\ HasUrl(as[i]) => rows[i].id = as[i].url
           /\ \A i, j \in 1..Len(rows) :
                (i # j /\ ~HasUrl(as[i]) /\ ~HasUrl(as[j])) => rows[i].id # rows[j].id

\* C7: batch files are write-once and only accumulate: a classify_sentiment
\* call that returns adds exactly one new file holding exactly its batch, no
\* step changes or removes a file that exists, and fetching, load_recent and
\* rendering add no file.
C7_FilesOnlyAccumulate ==
    [][/\ \A f \in DOMAIN store : f \in DOMAIN store' /\ store'[f] = store[f]
       /\ \A r \in Runs :
            /\ (pc[r] = "classify" /\ pc'[r] = "load") =>
                  \E f \in DOMAIN store' \ DOMAIN store :
                      /\ DOMAIN store' = DOMAIN store \cup {f}
                      /\ store'[f].parseable
                      /\ store'[f].data = df_new'[r]
                      /\ Len(df_new'[r].rows) = Len(df_new[r].rows)
                      /\ \A i \in 1..Len(df_new[r].rows) : \A c \in DOMAIN df_new[r].rows[i] :
                            store'[f].data.rows[i][c] = df_new[r].rows[i][c]
            /\ (pc[r] \in {"idle", "aborted", "fetch", "load", "render"} /\ pc'[r] # pc[r]) =>
                  store' = store]_vars

\* a third batch has just been added next to two earlier files
C7_Witness ==
    \E r \in Runs :
        /\ pc[r] = "load"
        /\ fname[r] \in DOMAIN store
        /\ store[fname[r]].data = df_new[r]
        /\ Cardinality({f \in DOMAIN store : store[f].parseable}) = 3

\* C8: sessions that fetch, classify and persist at the same time each end
\* up with their own file holding exactly their own batch: no two of them
\* share a file name, and no file is overwritten by another session.
C8_OneFilePerRun ==
    /\ \A r \in Runs : Persisted(r) =>
          /\ fname[r] \in DOMAIN store
          /\ store[fname[r]].parseable
          /\ store[fname[r]].data = df_new[r]
    /\ \A r1, r2 \in Runs : (r1 # r2 /\ Persisted(r1) /\ Persisted(r2)) => fname[r1] # fname[r2]

\* two sessions were in classify_sentiment together and both have persisted
\* different batches
C8_Witness ==
    /\ pc[1] = "load" /\ pc[2] = "load"
    /\ Persisted(1) /\ Persisted(2)
    /\ df_new[1] # df_new[2]
    /\ store[fname[1]].data = df_new[1]
    /\ store[fname[2]].data = df_new[2]

\* C9: load_recent skips the files that fail to parse: its results are those
\* computed over the same newest files without the unparseable ones, and
\* with no file, or none that parses, the result is empty with the columns
\* id, source, title, publishedAt, sentiment, prob_pos.
C9_SkipsUnparseable ==
    \A n \in 0..MaxN :
        /\ load_recent(store, n) = load_recent(Restrict(store, Loaded(store)), n)
        /\ Loaded(store) = {} =>
              load_recent(store, n) =
                  {[columns |-> <<"id", "source", "title", "publishedAt",
                                  "sentiment", "prob_pos">>,
                    rows |-> <<>>]}
        /\ \A r \in Runs : pc[r] = "render" => df[r] \in load_recent(Restrict(store, Loaded(store)), DefaultN)

\* the newest file is unparseable, an older one among the newest parses, and
\* load_recent() returned the older one's records
C9_Witness ==
    \E r \in Runs :
        /\ pc[r] = "render"
        /\ \E f \in Window(store), g \in Loaded(store) :
              ~store[f].parseable /\ store[f].mtime > store[g].mtime
        /\ df[r].rows # <<>>

\* C10: a title whose scoring raises gets Neutral and 0.5, every other title
\* the label and score of its own polarity, row by row, and the whole batch,
\* as many records as were fetched, is persisted and returned.
C10_ScoringFailureIsNeutral ==
    [][\A r \in Runs : (pc[r] = "classify" /\ pc'[r] = "load") =>
          LET before == df_new[r].rows
              after == df_new'[r].rows
          IN /\ Len(after) = Len(before)
             /\ Len(before) > 0
             /\ \A i \in 1..Len(before) :
                   LET o == textblob[before[i].title]
                   IN /\ after[i].id = before[i].id
                      /\ after[i].title = before[i].title
                      /\ o.raises => (after[i].sentiment = "Neutral" /\ 2 * after[i].prob_pos = 2 * Scale)
                      /\ ~o.raises =>
                            /\ after[i].prob_pos = o.polarity + Scale
                            /\ after[i].sentiment =
                                  (IF o.polarity > Threshold THEN "Positive"
                                   ELSE IF o.polarity < 0 - Threshold THEN "Negative"
                                   ELSE "Neutral")
             /\ fname'[r] \in DOMAIN store'
             /\ store'[fname'[r]].data.rows = after]_vars

\* a persisted batch of two titles, the first of which failed to score while
\* the second scored Negative
C10_Witness ==
    \E r \in Runs :
        /\ Persisted(r)
        /\ Len(df_new[r].rows) = 2
        /\ textblob[df_new[r].rows[1].title].raises
        /\ ~textblob[df_new[r].rows[2].title].raises
        /\ df_new[r].rows[1].sentiment = "Neutral"
        /\ df_new[r].rows[2].sentiment = "Negative"
        /\ store[fname[r]].data = df_new[r]

====
